---- MODULE Spec2Model ----
(***************************************************************************)
(* Model of examples/bmm350_forced_mode/bmm350_forced_mode.c: main(), the  *)
(* forced-mode acquisition script, and calculate_noise(), the per-axis     *)
(* RMS noise routine.                                                      *)
(*                                                                         *)
(* Every `double` of the program is modelled as an IEEE-754 binary64       *)
(* value: a sign, a 53-bit significand and an exponent, with each          *)
(* operation (+, -, *, /, sqrt) rounded to nearest, ties to even, as the   *)
(* C operators and sqrt() of <math.h> do.  The exponent is unbounded in    *)
(* the model (no overflow to infinity, no subnormals): the sample values   *)
(* used stay far from both ends of the binary64 range.                     *)
(***************************************************************************)
EXTENDS Integers, Sequences, FiniteSets, TLC

(***************************************************************************)
(* Natural numbers of any size, as little-endian sequences of 14-bit limbs *)
(* without leading zero limbs (TLC's integers are 32 bits wide, a binary64 *)
(* significand is 53).                                                     *)
(***************************************************************************)
LimbBits == 2 * 7

LimbBase == 2 ^ LimbBits

Pow2(n) == 2 ^ n

Limb(a, i) == IF i <= Len(a) THEN a[i] ELSE 0

RECURSIVE BNTrim(_)
BNTrim(a) ==
    IF a = <<>> THEN a
    ELSE IF a[Len(a)] = 0 THEN BNTrim(SubSeq(a, 1, Len(a) - 1)) ELSE a

BNFromInt(n) ==
    BNTrim(<<n % LimbBase, (n \div LimbBase) % LimbBase,
             n \div (LimbBase * LimbBase)>>)

RECURSIVE BNAddC(_, _, _, _)
BNAddC(a, b, i, c) ==
    IF i > Len(a) /\ i > Len(b)
    THEN (IF c = 0 THEN <<>> ELSE <<c>>)
    ELSE LET s == Limb(a, i) + Limb(b, i) + c
         IN  <<s % LimbBase>> \o BNAddC(a, b, i + 1, s \div LimbBase)

BNAdd(a, b) == BNAddC(a, b, 1, 0)

\* a - b for a >= b
RECURSIVE BNSubC(_, _, _, _)
BNSubC(a, b, i, c) ==
    IF i > Len(a) THEN <<>>
    ELSE LET s == a[i] - Limb(b, i) - c
         IN  IF s < 0
             THEN <<s + LimbBase>> \o BNSubC(a, b, i + 1, 1)
             ELSE <<s>> \o BNSubC(a, b, i + 1, 0)

BNSub(a, b) == BNTrim(BNSubC(a, b, 1, 0))

\* -1, 0, 1 as a < b, a = b, a > b
RECURSIVE BNCmpAt(_, _, _)
BNCmpAt(a, b, i) ==
    IF i = 0 THEN 0
    ELSE IF a[i] < b[i] THEN -1
    ELSE IF a[i] > b[i] THEN 1
    ELSE BNCmpAt(a, b, i - 1)

BNCmp(a, b) ==
    IF Len(a) < Len(b) THEN -1
    ELSE IF Len(a) > Len(b) THEN 1
    ELSE BNCmpAt(a, b, Len(a))

RECURSIVE BNCol(_, _, _, _)
BNCol(a, b, k, i) ==
    IF i > Len(a) \/ i > k THEN 0
    ELSE (IF k + 1 - i <= Len(b) THEN a[i] * b[k + 1 - i] ELSE 0)
         + BNCol(a, b, k, i + 1)

RECURSIVE BNMulC(_, _, _, _)
BNMulC(a, b, k, c) ==
    IF k > Len(a) + Len(b) - 1
    THEN (IF c = 0 THEN <<>>
          ELSE <<c % LimbBase>> \o BNMulC(a, b, k + 1, c \div LimbBase))
    ELSE LET s == c + BNCol(a, b, k, 1)
         IN  <<s % LimbBase>> \o BNMulC(a, b, k + 1, s \div LimbBase)

\* operands of at most 4 limbs each (a column sum stays below 2^31)
BNMul(a, b) == IF a = <<>> \/ b = <<>> THEN <<>> ELSE BNMulC(a, b, 1, 0)

\* a * m for 0 < m <= 2^14
RECURSIVE BNMulSmallC(_, _, _, _)
BNMulSmallC(a, m, i, c) ==
    IF i > Len(a)
    THEN (IF c = 0 THEN <<>> ELSE <<c>>)
    ELSE LET s == a[i] * m + c
         IN  <<s % LimbBase>> \o BNMulSmallC(a, m, i + 1, s \div LimbBase)

Zeros(q) == [i \in 1..q |-> 0]

\* a * 2^n
BNShl(a, n) ==
    IF a = <<>> THEN a
    ELSE Zeros(n \div LimbBits) \o BNMulSmallC(a, Pow2(n % LimbBits), 1, 0)

\* quotient and remainder of a by d, 0 < d <= 2^14
RECURSIVE BNDivS(_, _, _, _)
BNDivS(a, d, i, rem) ==
    IF i = 0 THEN [q |-> <<>>, r |-> rem]
    ELSE LET cur  == rem * LimbBase + a[i]
             rest == BNDivS(a, d, i - 1, cur % d)
         IN  [q |-> rest.q \o <<cur \div d>>, r |-> rest.r]

BNDivSmall(a, d) ==
    LET qr == BNDivS(a, d, Len(a), 0) IN [q |-> BNTrim(qr.q), r |-> qr.r]

\* floor(a / 2^n)
BNShr(a, n) ==
    LET q == n \div LimbBits
    IN  IF q >= Len(a) THEN <<>>
        ELSE BNDivSmall(SubSeq(a, q + 1, Len(a)), Pow2(n % LimbBits)).q

\* a mod 2^n # 0
BNLowNonzero(a, n) ==
    LET q == n \div LimbBits
    IN  \/ \E i \in 1..q : i <= Len(a) /\ a[i] # 0
        \/ q < Len(a) /\ a[q + 1] % Pow2(n % LimbBits) # 0

BNBitLen(a) ==
    IF a = <<>> THEN 0
    ELSE LimbBits * (Len(a) - 1)
         + (CHOOSE k \in 1..LimbBits :
                Pow2(k - 1) <= a[Len(a)] /\ a[Len(a)] < Pow2(k))

BNOdd(a) == a # <<>> /\ a[1] % 2 = 1

\* One bit of floor(sqrt(n)): r, the root found from the bits above `bit`,
\* with bit `bit` set when the square still fits.
BNSqrtBit(n, r, bit) ==
    LET t == BNAdd(r, BNShl(<<1>>, bit))
    IN  IF BNCmp(BNMul(t, t), n) <= 0 THEN t ELSE r

\* The bits hi down to lo of floor(sqrt(n)), added to r (the range is halved
\* rather than walked, which keeps the evaluation shallow).
RECURSIVE BNSqrtBits(_, _, _, _)
BNSqrtBits(n, r, hi, lo) ==
    IF hi = lo THEN BNSqrtBit(n, r, hi)
    ELSE LET mid == (hi + lo + 1) \div 2
             r1  == BNSqrtBits(n, r, hi, mid)
         IN  IF Len(r1) >= 0 THEN BNSqrtBits(n, r1, mid - 1, lo) ELSE r1

\* floor(sqrt(n)) for n < 2^112
BNSqrt(n) == BNSqrtBits(n, <<>>, 55, 0)

(***************************************************************************)
(* binary64 values: k is "num", "inf" or "nan"; a number is s * m * 2^e    *)
(* with s in {-1, 0, 1} and m of exactly DBL_MANT_DIG bits (zero: s = 0,   *)
(* m = <<>>, e = 0), so equal values are equal records.                    *)
(***************************************************************************)
DBL_MANT_DIG == 53

FZero == [k |-> "num", s |-> 0, m |-> <<>>, e |-> 0]

FNaN == [k |-> "nan", s |-> 0, m |-> <<>>, e |-> 0]

FInf(s) == [k |-> "inf", s |-> s, m |-> <<>>, e |-> 0]

IsNum(a) == a.k = "num"

\* s * M * 2^e (plus, with sticky, a positive fraction of 2^e below one unit
\* of M) rounded to nearest, ties to even: v the value, x whether it was
\* rounded.  With sticky, M has at least DBL_MANT_DIG + 2 bits.
FRound(s, M, e, sticky) ==
    LET L == BNBitLen(M)
    IN  IF M = <<>> THEN [v |-> FZero, x |-> sticky]
        ELSE IF L <= DBL_MANT_DIG
        THEN [v |-> [k |-> "num", s |-> s, m |-> BNShl(M, DBL_MANT_DIG - L),
                     e |-> e - (DBL_MANT_DIG - L)],
              x |-> sticky]
        ELSE LET sh    == L - DBL_MANT_DIG
                 q     == BNShr(M, sh)
                 guard == BNOdd(BNShr(M, sh - 1))
                 st    == sticky \/ BNLowNonzero(M, sh - 1)
                 up    == guard /\ (st \/ BNOdd(q))
                 q2    == IF up THEN BNAdd(q, <<1>>) ELSE q
                 carry == BNBitLen(q2) > DBL_MANT_DIG
             IN  [v |-> [k |-> "num", s |-> s,
                         m |-> IF carry THEN BNShr(q2, 1) ELSE q2,
                         e |-> IF carry THEN e + sh + 1 ELSE e + sh],
                  x |-> guard \/ st]

\* (double)n for an integer |n| < 2^31
FFromInt(n) ==
    IF n = 0 THEN FZero
    ELSE FRound(IF n < 0 THEN -1 ELSE 1,
                BNFromInt(IF n < 0 THEN -n ELSE n), 0, FALSE).v

FNeg(a) == [a EXCEPT !.s = -a.s]

\* a + b: v the rounded sum, x whether it was rounded
FAddX(a, b) ==
    IF ~IsNum(a) \/ ~IsNum(b) THEN [v |-> FNaN, x |-> FALSE]
    ELSE IF a.s = 0 THEN [v |-> b, x |-> FALSE]
    ELSE IF b.s = 0 THEN [v |-> a, x |-> FALSE]
    ELSE LET hi == IF a.e >= b.e THEN a ELSE b
             lo == IF a.e >= b.e THEN b ELSE a
             d  == hi.e - lo.e
         IN  IF d > 64
             \* lo is below a quarter of hi's last place: the sum rounds to hi
             THEN [v |-> hi, x |-> TRUE]
             ELSE LET H == BNShl(hi.m, d)
                      c == BNCmp(H, lo.m)
                  IN  IF hi.s = lo.s
                      THEN FRound(hi.s, BNAdd(H, lo.m), lo.e, FALSE)
                      ELSE IF c = 0 THEN [v |-> FZero, x |-> FALSE]
                      ELSE IF c > 0
                      THEN FRound(hi.s, BNSub(H, lo.m), lo.e, FALSE)
                      ELSE FRound(lo.s, BNSub(lo.m, H), lo.e, FALSE)

FAdd(a, b) == FAddX(a, b).v

FSub(a, b) == FAdd(a, FNeg(b))

FMul(a, b) ==
    IF ~IsNum(a) \/ ~IsNum(b) THEN FNaN
    ELSE IF a.s = 0 \/ b.s = 0 THEN FZero
    ELSE FRound(a.s * b.s, BNMul(a.m, b.m), a.e + b.e, FALSE).v

\* a / (double)d for an integer 0 <= d <= 2^14
FDivSmall(a, d) ==
    IF ~IsNum(a) THEN FNaN
    ELSE IF d = 0 THEN (IF a.s = 0 THEN FNaN ELSE FInf(a.s))
    ELSE IF a.s = 0 THEN FZero
    ELSE LET qr == BNDivSmall(BNShl(a.m, 2 * LimbBits), d)
         IN  FRound(a.s, qr.q, a.e - 2 * LimbBits, qr.r # 0).v

\* sqrt(a)
FSqrt(a) ==
    IF ~IsNum(a) \/ a.s < 0 THEN FNaN
    ELSE IF a.s = 0 THEN FZero
    ELSE LET t == IF (a.e - 57) % 2 = 0 THEN 57 ELSE 58
             M == BNShl(a.m, t)
             r == BNSqrt(M)
         IN  FRound(1, r, (a.e - t) \div 2, BNCmp(BNMul(r, r), M) # 0).v

(***************************************************************************)
(* Program constants and data types.                                       *)
(***************************************************************************)
\* uint8_t arithmetic is modulo 2^8
UINT8_MOD == 256

\* 256 samples asked for: UINT8_C(256) is 0 in 8 bits
SampleCountWrapped == UINT8_MOD % UINT8_MOD

\* #define MAG_SAMPLE_COUNT UINT8_C(100)
MAG_SAMPLE_COUNT == 100

BMM350_OK == 0

\* the literal of `sqrt(variance_x) * 1000`
NOISE_SCALE == 1000

\* the literal of `loop = 10`
LOOP_COUNT == 10

\* struct bmm350_mag_data
Vec(x, y, z) == [x |-> x, y |-> y, z |-> z]

VecZero == Vec(FZero, FZero, FZero)

Axes == {"x", "y", "z"}

\* struct bmm350_mag_temp_data = { 0 }
SampleZero == [x |-> FZero, y |-> FZero, z |-> FZero, temperature |-> FZero]

(***************************************************************************)
(* Bounds of the model.                                                    *)
(***************************************************************************)
\* number of distinct sample vectors the inputs of calculate_noise are
\* drawn from
NumVecs == 3

\* number of distinct sample vectors the sensor delivers in a run of main
NumSensorVecs == 2

\* number of distinct failure codes a driver call returns
NumErrCodes == 2

\* The i-th sample vector: x = i/10 uT (not a binary fraction: sums of its
\* squares round), y = i uT and z = 25 + i/4 uT (small dyadic values: every
\* operation on them is exact), temperature 20 + i degC.
SampleVecAt(i) ==
    [x |-> FDivSmall(FFromInt(i), 10),
     y |-> FFromInt(i),
     z |-> FDivSmall(FFromInt(100 + i), 4),
     temperature |-> FFromInt(20 + i)]

MaxVecs == IF NumVecs > NumSensorVecs THEN NumVecs ELSE NumSensorVecs

SampleVec == [i \in 1..MaxVecs |-> SampleVecAt(i)]

\* a mean vector passed to calculate_noise: zero, or the x, y, z of a sample
MeanVec == [j \in 0..NumVecs |->
              IF j = 0 THEN VecZero
              ELSE Vec(SampleVec[j].x, SampleVec[j].y, SampleVec[j].z)]

\* int8_t status codes: BMM350_OK and the failures
ErrCodes == {-e : e \in 1..NumErrCodes}

Rslt == {BMM350_OK} \cup ErrCodes

\* the status of a read that fails on the bus
E_COM_FAIL == -NumErrCodes

(***************************************************************************)
(* State.                                                                  *)
(***************************************************************************)
VARIABLES
    pc,                 \* the statement about to run ("L<line>"), or "done"
    rslt,               \* int8_t rslt
    loop,               \* uint8_t loop
    mag_temp_data,      \* struct bmm350_mag_temp_data mag_temp_data
    get_mag_temp_data,  \* get_mag_temp_data[MAG_SAMPLE_COUNT]
    mean_mag_data,      \* mean_mag_data_1, mean_mag_data_2, mean_mag_data_3
    avg_mag_data,       \* struct bmm350_mag_data avg_mag_data of main
    ret,                \* {the value main returned} ({} before)
    \* the frame of calculate_noise
    arg_avg_mag_data,   \* its parameter avg_mag_data (passed by value)
    variance,           \* variance_x, variance_y, variance_z
    index,              \* uint8_t index
    noise_level,        \* noise_level_x, _y, _z as printed ("none" before)
    ret_pc,             \* where the call returns to
    \* the sensor behind the driver
    sensor,             \* what its successive reads deliver, cyclically
    seq,                \* the position of the next read in `sensor`
    \* what has happened so far (read by the properties only)
    comb,               \* the combination (1..6) being run, 0 before
    last_call,          \* the most recent driver call
    prev_call,          \* the driver call before it
    odr_comb,           \* the combination of the last set_odr_performance
    reads,              \* reads made, per combination
    triggers,           \* bmm350_set_powermode calls made, per combination
    called,             \* the driver functions called so far
    n_deinit,           \* calls of bmm350_coines_deinit
    axes_rslt,          \* {what bmm350_enable_axes returned} ({} before)
    failed,             \* some driver call returned a failure
    oob,                \* an array was indexed outside 0..MAG_SAMPLE_COUNT-1
    n_noise,            \* calls of calculate_noise
    call_batch,         \* the batch as its acquisition loop left it
    call_avg,           \* the mean vector passed to that call
    n_div,              \* the divisor of the last `variance /= ...`
    acc_inexact,        \* per axis: an addition into variance_a was rounded
    first               \* the harness's first call: its inputs and results

vars == <<pc, rslt, loop, mag_temp_data, get_mag_temp_data, mean_mag_data,
          avg_mag_data, ret, arg_avg_mag_data, variance, index, noise_level,
          ret_pc, sensor, seq, comb, last_call, prev_call, odr_comb, reads,
          triggers, called, n_deinit, axes_rslt, failed, oob, n_noise,
          call_batch, call_avg, n_div, acc_inexact, first>>

mainVars == <<rslt, loop, mag_temp_data, mean_mag_data, ret>>

noiseVars == <<arg_avg_mag_data, variance, index, noise_level, ret_pc,
               n_noise, call_batch, call_avg, n_div, acc_inexact>>

envVars == <<sensor, seq>>

logVars == <<comb, last_call, prev_call, odr_comb, reads, triggers, called,
             n_deinit, axes_rslt, failed>>

NoFlags == [a \in Axes |-> FALSE]

\* the locals of main as declared (lines 92-107), before its first statement
InitLocals ==
    /\ rslt = 0
    /\ loop = LOOP_COUNT
    /\ mag_temp_data = SampleZero
    /\ mean_mag_data = [c \in 1..3 |-> VecZero]
    /\ ret = {}

InitMain ==
    /\ InitLocals
    /\ get_mag_temp_data = [i \in 0..(MAG_SAMPLE_COUNT - 1) |-> SampleZero]
    /\ avg_mag_data = VecZero

InitNoise ==
    /\ arg_avg_mag_data = VecZero
    /\ variance = VecZero
    /\ index = 0
    /\ noise_level = "none"
    /\ ret_pc = "none"
    /\ n_noise = 0
    /\ call_batch = <<>>
    /\ call_avg = VecZero
    /\ n_div = -1
    /\ acc_inexact = NoFlags
    /\ first = "none"

InitLog ==
    /\ comb = 0
    /\ last_call = "none"
    /\ prev_call = "none"
    /\ odr_comb = 0
    /\ reads = [c \in 1..6 |-> 0]
    /\ triggers = [c \in 1..6 |-> 0]
    /\ called = {}
    /\ n_deinit = 0
    /\ axes_rslt = {}
    /\ failed = FALSE
    /\ oob = FALSE

\* The sensor: its reads deliver, cyclically, the vectors sensor[0],
\* sensor[1], sensor[2]; 0 stands for a read that fails and leaves the
\* caller's structure as it was.
Init ==
    /\ pc = "L110"
    /\ InitMain /\ InitNoise /\ InitLog
    /\ sensor \in [0..2 -> 0..NumSensorVecs]
    /\ seq = 0

(***************************************************************************)
(* The driver, as main sees it: every call returns a status; a read also   *)
(* fills the caller's structure when it succeeds.                          *)
(***************************************************************************)
LogCall(name, r) ==
    /\ prev_call' = last_call
    /\ last_call' = name
    /\ called' = called \cup {name}
    /\ failed' = (failed \/ r # BMM350_OK)

\* bmm350_get_compensated_mag_xyz_temp_data(&old, &dev): the status and the
\* structure after the call
DriverRead(old) ==
    IF sensor[seq] = 0
    THEN [rslt |-> E_COM_FAIL, data |-> old]
    ELSE [rslt |-> BMM350_OK, data |-> SampleVec[sensor[seq]]]

Bump(f, c) == [f EXCEPT ![c] = @ + 1]

(***************************************************************************)
(* main, lines 109-175: set-up.                                            *)
(***************************************************************************)
\* <<statement, driver function, next statement>>
SetupCalls ==
    << <<"L110", "bmm350_interface_init", "L114">>,
       <<"L114", "bmm350_init", "L120">>,
       <<"L120", "bmm350_get_pmu_cmd_status_0", "L127">>,
       <<"L127", "bmm350_get_regs", "L134">>,
       <<"L134", "bmm350_configure_interrupt", "L142">>,
       <<"L142", "bmm350_enable_interrupt", "L146">>,
       <<"L146", "bmm350_get_regs", "L165">> >>

\* rslt = bmm350_...(...); bmm350_error_codes_print_result(..., rslt);
SetupCall ==
    \E i \in 1..Len(SetupCalls), r \in Rslt :
        /\ pc = SetupCalls[i][1]
        /\ rslt' = r
        /\ pc' = SetupCalls[i][3]
        /\ LogCall(SetupCalls[i][2], r)
        /\ UNCHANGED <<loop, mag_temp_data, get_mag_temp_data, mean_mag_data,
                       avg_mag_data, ret, noiseVars, envVars, comb, odr_comb,
                       reads, triggers, n_deinit, axes_rslt, oob, first>>

\* the statements of the six combinations
OdrLine == <<"L165", "L203", "L233", "L261", "L307", "L353">>

AfterOdr == <<"L169", "L211", "L241", "L269i", "L315i", "L361i">>

LoopHead == <<"L182", "L211", "L241", "L269", "L315", "L361">>

TrigLine == <<"L174", "L213", "L243", "L269", "L315", "L361">>

ReadLine == <<"L182", "L216", "L246", "L274", "L320", "L366">>

LoopExit == <<"L197", "L227", "L261", "L292", "L338", "L384">>

CallLine == <<"none", "none", "none", "L301", "L347", "L393">>

AfterCall == <<"none", "none", "none", "L307", "L353", "L396">>

\* rslt = bmm350_set_odr_performance(BMM350_DATA_RATE_100HZ, ..., &dev);
SetOdr(c) ==
    \E r \in Rslt :
        /\ pc = OdrLine[c]
        /\ rslt' = r
        /\ pc' = AfterOdr[c]
        /\ LogCall("bmm350_set_odr_performance", r)
        /\ comb' = c
        /\ odr_comb' = c
        /\ UNCHANGED <<loop, mag_temp_data, get_mag_temp_data, mean_mag_data,
                       avg_mag_data, ret, noiseVars, envVars, reads, triggers,
                       n_deinit, axes_rslt, oob, first>>

\* rslt = bmm350_enable_axes(BMM350_X_EN, BMM350_Y_EN, BMM350_Z_EN, &dev);
EnableAxes ==
    \E r \in Rslt :
        /\ pc = "L169"
        /\ rslt' = r
        /\ axes_rslt' = {r}
        /\ pc' = "L172"
        /\ LogCall("bmm350_enable_axes", r)
        /\ UNCHANGED <<loop, mag_temp_data, get_mag_temp_data, mean_mag_data,
                       avg_mag_data, ret, noiseVars, envVars, comb, odr_comb,
                       reads, triggers, n_deinit, oob, first>>

\* the test of rslt left out: the block always runs
CheckAxesIgnored ==
    /\ pc = "L172"
    /\ pc' = "L174"
    /\ UNCHANGED <<mainVars, get_mag_temp_data, avg_mag_data, noiseVars,
                   envVars, logVars, oob, first>>

\* if (rslt == BMM350_OK) { ... } bmm350_coines_deinit();
CheckAxes ==
    /\ pc = "L172"
    /\ pc' = IF rslt = BMM350_OK THEN "L174" ELSE "L396"
    /\ UNCHANGED <<mainVars, get_mag_temp_data, avg_mag_data, noiseVars,
                   envVars, logVars, oob, first>>

(***************************************************************************)
(* main, lines 174-255: combinations 1, 2 and 3 (10 reads each, printed).  *)
(***************************************************************************)
\* the trigger left out of the loop body: the read follows at once
TriggerSkipped(c) ==
    /\ pc = TrigLine[c]
    /\ c >= 4 => loop < MAG_SAMPLE_COUNT
    /\ pc' = ReadLine[c]
    /\ UNCHANGED <<mainVars, get_mag_temp_data, avg_mag_data, noiseVars,
                   envVars, logVars, oob, first>>

\* rslt = bmm350_set_powermode(BMM350_FORCED_MODE[_FAST], &dev);
\* c = 1: line 174, once before the loop; c = 2, 3: first statement of the
\* loop body; c = 4, 5, 6: first statement of the body of
\* `for (loop = 0; loop < MAG_SAMPLE_COUNT;)`, whose test is the guard.
Trigger(c) ==
    \E r \in Rslt :
        /\ pc = TrigLine[c]
        /\ c >= 4 => loop < MAG_SAMPLE_COUNT
        /\ rslt' = r
        /\ pc' = ReadLine[c]
        /\ LogCall("bmm350_set_powermode", r)
        /\ triggers' = Bump(triggers, c)
        /\ UNCHANGED <<loop, mag_temp_data, get_mag_temp_data, mean_mag_data,
                       avg_mag_data, ret, noiseVars, envVars, comb, odr_comb,
                       reads, n_deinit, axes_rslt, oob, first>>

\* the read into mag_temp_data and its print (lines 184-192, 216-224,
\* 246-254)
ReadInto(c, nextLoop, nextPc) ==
    LET d == DriverRead(mag_temp_data)
    IN  /\ rslt' = d.rslt
        /\ mag_temp_data' = d.data
        /\ seq' = (seq + 1) % Cardinality(DOMAIN sensor)
        /\ loop' = nextLoop
        /\ pc' = nextPc
        /\ LogCall("bmm350_get_compensated_mag_xyz_temp_data", d.rslt)
        /\ reads' = Bump(reads, c)
        /\ UNCHANGED <<get_mag_temp_data, mean_mag_data, avg_mag_data, ret,
                       noiseVars, sensor, comb, odr_comb, triggers, n_deinit,
                       axes_rslt, oob, first>>

\* while (loop) { read; print; loop--; }
Loop1Body ==
    /\ pc = "L182"
    /\ loop # 0
    /\ ReadInto(1, (loop - 1) % UINT8_MOD, "L182")

Loop1Exit ==
    /\ pc = "L182"
    /\ loop = 0
    /\ pc' = "L197"
    /\ UNCHANGED <<mainVars, get_mag_temp_data, avg_mag_data, noiseVars,
                   envVars, logVars, oob, first>>

\* `loop = 10;` left out after a loop
LoopResetSkipped(c) ==
    /\ pc = LoopExit[c - 1]
    /\ pc' = OdrLine[c]
    /\ UNCHANGED <<mainVars, get_mag_temp_data, avg_mag_data, noiseVars,
                   envVars, logVars, oob, first>>

\* loop = 10;  (lines 197 and 227)
LoopReset(c) ==
    /\ pc = LoopExit[c - 1]
    /\ loop' = LOOP_COUNT
    /\ pc' = OdrLine[c]
    /\ UNCHANGED <<rslt, mag_temp_data, get_mag_temp_data, mean_mag_data,
                   avg_mag_data, ret, noiseVars, envVars, logVars, oob, first>>

\* while (loop--): the test reads loop, the decrement always happens and
\* wraps from 0 to 255
WhileDec(c) ==
    /\ pc = LoopHead[c]
    /\ loop' = (loop - 1) % UINT8_MOD
    /\ pc' = IF loop # 0 THEN TrigLine[c] ELSE LoopExit[c]
    /\ UNCHANGED <<rslt, mag_temp_data, get_mag_temp_data, mean_mag_data,
                   avg_mag_data, ret, noiseVars, envVars, logVars, oob, first>>

\* the rest of the loop body of combinations 2 and 3
Read(c) ==
    /\ pc = ReadLine[c]
    /\ ReadInto(c, loop, LoopHead[c])

(***************************************************************************)
(* main, lines 260-393: combinations 4, 5 and 6 (100 reads each into       *)
(* get_mag_temp_data, their mean, calculate_noise).                        *)
(***************************************************************************)
\* for (loop = 0; ...
ForInit(c) ==
    /\ pc = AfterOdr[c]
    /\ loop' = 0
    /\ pc' = LoopHead[c]
    /\ UNCHANGED <<rslt, mag_temp_data, get_mag_temp_data, mean_mag_data,
                   avg_mag_data, ret, noiseVars, envVars, logVars, oob, first>>

InBounds(i) == i \in 0..(MAG_SAMPLE_COUNT - 1)

\* mean_mag_data_k.x += get_mag_temp_data[loop].x; and .y, .z
Accumulate(m, sample) ==
    Vec(FAdd(m.x, sample.x), FAdd(m.y, sample.y), FAdd(m.z, sample.z))

\* the rest of the body: the read into get_mag_temp_data[loop], its print,
\* the three additions into mean_mag_data_(c-3), loop++
ForBody(c) ==
    LET d    == DriverRead(IF InBounds(loop) THEN get_mag_temp_data[loop]
                           ELSE SampleZero)
        buf  == IF InBounds(loop)
                THEN [get_mag_temp_data EXCEPT ![loop] = d.data]
                ELSE get_mag_temp_data
    IN  /\ pc = ReadLine[c]
        /\ rslt' = d.rslt
        /\ get_mag_temp_data' = buf
        /\ oob' = (oob \/ ~InBounds(loop))
        /\ mean_mag_data' =
               [mean_mag_data EXCEPT ![c - 3] = Accumulate(@, d.data)]
        /\ seq' = (seq + 1) % Cardinality(DOMAIN sensor)
        /\ loop' = (loop + 1) % UINT8_MOD
        /\ pc' = LoopHead[c]
        /\ LogCall("bmm350_get_compensated_mag_xyz_temp_data", d.rslt)
        /\ reads' = Bump(reads, c)
        /\ UNCHANGED <<mag_temp_data, avg_mag_data, ret, noiseVars, sensor,
                       comb, odr_comb, triggers, n_deinit, axes_rslt, first>>

\* one accumulator shared by the three combinations
MeanOfShared(c) == mean_mag_data[1]

\* the mean accumulated by combination c
MeanOf(c) == mean_mag_data[c - 3]

\* avg_mag_data.x = (double)(mean_mag_data_k.x / MAG_SAMPLE_COUNT); and .y, .z
Average(c) ==
    /\ pc = LoopHead[c]
    /\ ~(loop < MAG_SAMPLE_COUNT)
    /\ avg_mag_data' = Vec(FDivSmall(MeanOf(c).x, MAG_SAMPLE_COUNT),
                           FDivSmall(MeanOf(c).y, MAG_SAMPLE_COUNT),
                           FDivSmall(MeanOf(c).z, MAG_SAMPLE_COUNT))
    /\ pc' = CallLine[c]
    /\ call_batch' = get_mag_temp_data
    /\ UNCHANGED <<mainVars, get_mag_temp_data, arg_avg_mag_data, variance,
                   index, noise_level, ret_pc, n_noise, call_avg, n_div,
                   acc_inexact, envVars, logVars, oob, first>>

\* calculate_noise(get_mag_temp_data, avg_mag_data);
CallNoise(c) ==
    /\ pc = CallLine[c]
    /\ arg_avg_mag_data' = avg_mag_data
    /\ ret_pc' = AfterCall[c]
    /\ pc' = "L406"
    /\ n_noise' = n_noise + 1
    /\ call_avg' = avg_mag_data
    /\ UNCHANGED <<mainVars, get_mag_temp_data, avg_mag_data, variance, index,
                   noise_level, call_batch, n_div, acc_inexact, envVars,
                   logVars, oob, first>>

\* bmm350_coines_deinit();
Deinit ==
    /\ pc = "L396"
    /\ pc' = "L398"
    /\ n_deinit' = n_deinit + 1
    /\ LogCall("bmm350_coines_deinit", BMM350_OK)
    /\ UNCHANGED <<mainVars, get_mag_temp_data, avg_mag_data, noiseVars,
                   envVars, comb, odr_comb, reads, triggers, axes_rslt, oob,
                   first>>

\* return rslt;
Return ==
    /\ pc = "L398"
    /\ ret' = {rslt}
    /\ pc' = "done"
    /\ UNCHANGED <<rslt, loop, mag_temp_data, mean_mag_data,
                   get_mag_temp_data, avg_mag_data, noiseVars, envVars,
                   logVars, oob, first>>

(***************************************************************************)
(* calculate_noise, lines 404-431.  mag_temp_data points at main's         *)
(* get_mag_temp_data (const); avg_mag_data is a copy of main's.            *)
(***************************************************************************)
\* the loop started at the second entry: for (index = 1; ...
NoiseEnterFromOne ==
    /\ pc = "L406"
    /\ variance' = VecZero
    /\ index' = 1
    /\ acc_inexact' = NoFlags
    /\ pc' = "L410"
    /\ UNCHANGED <<mainVars, get_mag_temp_data, avg_mag_data,
                   arg_avg_mag_data, noise_level, ret_pc, n_noise, call_batch,
                   call_avg, n_div, envVars, logVars, oob, first>>

\* the accumulators kept from the call before (static double variance_x)
NoiseEnterKeep ==
    /\ pc = "L406"
    /\ index' = 0
    /\ acc_inexact' = NoFlags
    /\ pc' = "L410"
    /\ UNCHANGED <<mainVars, get_mag_temp_data, avg_mag_data,
                   arg_avg_mag_data, variance, noise_level, ret_pc, n_noise,
                   call_batch, call_avg, n_div, envVars, logVars, oob, first>>

\* double variance_x = 0, variance_y = 0, variance_z = 0; uint8_t index = 0;
\* for (index = 0; ...
NoiseEnter ==
    /\ pc = "L406"
    /\ variance' = VecZero
    /\ index' = 0
    /\ acc_inexact' = NoFlags
    /\ pc' = "L410"
    /\ UNCHANGED <<mainVars, get_mag_temp_data, avg_mag_data,
                   arg_avg_mag_data, noise_level, ret_pc, n_noise, call_batch,
                   call_avg, n_div, envVars, logVars, oob, first>>

\* the mean forgotten: variance_a += s.a * s.a
AddSquareNoMean(v, s, avg) == FAddX(v, FMul(s, s))

\* variance_a += ((s.a - avg.a) * (s.a - avg.a)): v the new variance_a, x
\* whether the addition was rounded
AddSquare(v, s, avg) ==
    LET d == FSub(s, avg) IN FAddX(v, FMul(d, d))

\* one iteration of the loop of lines 410-417, and index++
NoiseLoop ==
    LET s  == IF InBounds(index) THEN get_mag_temp_data[index] ELSE SampleZero
        ax == AddSquare(variance.x, s.x, arg_avg_mag_data.x)
        ay == AddSquare(variance.y, s.y, arg_avg_mag_data.y)
        az == AddSquare(variance.z, s.z, arg_avg_mag_data.z)
    IN  /\ pc = "L410"
        /\ index < MAG_SAMPLE_COUNT
        /\ variance' = Vec(ax.v, ay.v, az.v)
        /\ acc_inexact' = [x |-> acc_inexact.x \/ ax.x,
                           y |-> acc_inexact.y \/ ay.x,
                           z |-> acc_inexact.z \/ az.x]
        /\ oob' = (oob \/ ~InBounds(index))
        /\ index' = (index + 1) % UINT8_MOD
        /\ pc' = "L410"
        /\ UNCHANGED <<mainVars, get_mag_temp_data, avg_mag_data,
                       arg_avg_mag_data, noise_level, ret_pc, n_noise,
                       call_batch, call_avg, n_div, envVars, logVars, first>>

\* the constant added instead of multiplied: sqrt(variance_a) + 1000
NoiseLevelOffset(v) == FAdd(FSqrt(v), FFromInt(NOISE_SCALE))

\* noise_level_a = sqrt(variance_a) * 1000;
NoiseLevel(v) == FMul(FSqrt(v), FFromInt(NOISE_SCALE))

\* the sample variance's divisor instead (variance_a /= N - 1)
DividedSample(v) == FDivSmall(v, MAG_SAMPLE_COUNT - 1)

\* variance_a /= MAG_SAMPLE_COUNT;
Divided(v) == FDivSmall(v, MAG_SAMPLE_COUNT)

\* lines 419-430: the three divisions, the three noise levels, the print;
\* the function returns
NoiseFinish ==
    LET v == Vec(Divided(variance.x), Divided(variance.y),
                 Divided(variance.z))
    IN  /\ pc = "L410"
        /\ ~(index < MAG_SAMPLE_COUNT)
        /\ variance' = v
        /\ n_div' = MAG_SAMPLE_COUNT
        /\ noise_level' = Vec(NoiseLevel(v.x), NoiseLevel(v.y), NoiseLevel(v.z))
        /\ pc' = ret_pc
        /\ UNCHANGED <<mainVars, get_mag_temp_data, avg_mag_data,
                       arg_avg_mag_data, index, ret_pc, n_noise, call_batch,
                       call_avg, acc_inexact, envVars, logVars, oob, first>>

(***************************************************************************)
(* A caller of calculate_noise other than main: it passes a batch and a    *)
(* mean vector drawn from the bounded input sets, then the same batch      *)
(* reordered with the same mean vector.                                    *)
(***************************************************************************)
\* the batch whose even entries are SampleVec[a] and odd entries SampleVec[b]
AltBatch(a, b) ==
    [i \in 0..(MAG_SAMPLE_COUNT - 1) |->
        IF i % 2 = 0 THEN SampleVec[a] ELSE SampleVec[b]]

PermKinds == {"reverse", "evens_first", "swap_ends"}

\* the entry of the original batch that lands at position i
PermIndex(kind, i) ==
    LET n     == MAG_SAMPLE_COUNT
        evens == (n + 1) \div 2
    IN  CASE kind = "reverse" -> n - 1 - i
          [] kind = "evens_first" ->
                 IF i < evens THEN 2 * i ELSE 2 * (i - evens) + 1
          [] kind = "swap_ends" ->
                 IF i = 0 THEN n - 1 ELSE IF i = n - 1 THEN 0 ELSE i

Permute(kind, batch) ==
    [i \in 0..(MAG_SAMPLE_COUNT - 1) |-> batch[PermIndex(kind, i)]]

InitHarness ==
    /\ pc = "harness"
    /\ InitLocals /\ InitNoise /\ InitLog
    /\ \E a, b \in 1..NumVecs : get_mag_temp_data = AltBatch(a, b)
    /\ \E j \in 0..NumVecs : avg_mag_data = MeanVec[j]
    /\ sensor = [i \in 0..2 |-> 0]
    /\ seq = 0

\* calculate_noise(batch, mean) by the harness
EnterNoise(retPc) ==
    /\ arg_avg_mag_data' = avg_mag_data
    /\ ret_pc' = retPc
    /\ pc' = "L406"
    /\ n_noise' = n_noise + 1
    /\ call_batch' = get_mag_temp_data'
    /\ call_avg' = avg_mag_data
    /\ UNCHANGED <<mainVars, avg_mag_data, variance, index, noise_level,
                   n_div, acc_inexact, envVars, logVars, oob>>

HarnessCall ==
    /\ pc = "harness"
    /\ n_noise = 0
    /\ UNCHANGED <<get_mag_temp_data, first>>
    /\ EnterNoise("harness")

\* the first call's inputs and results are kept; the batch is reordered and
\* passed again
HarnessPermute(kind) ==
    /\ pc = "harness"
    /\ n_noise = 1
    /\ first' = [batch |-> get_mag_temp_data, avg |-> avg_mag_data,
                 noise_level |-> noise_level,
                 inexact |-> acc_inexact, perm |-> kind]
    /\ get_mag_temp_data' = Permute(kind, get_mag_temp_data)
    /\ EnterNoise("harness")

(***************************************************************************)
(* Specifications.                                                         *)
(***************************************************************************)
Next ==
    \/ SetupCall
    \/ \E c \in 1..6 : SetOdr(c)
    \/ EnableAxes
    \/ CheckAxes
    \/ \E c \in 1..6 : Trigger(c)
    \/ Loop1Body
    \/ Loop1Exit
    \/ \E c \in 2..3 : LoopReset(c)
    \/ \E c \in 2..3 : WhileDec(c)
    \/ \E c \in 2..3 : Read(c)
    \/ \E c \in 4..6 : ForInit(c)
    \/ \E c \in 4..6 : ForBody(c)
    \/ \E c \in 4..6 : Average(c)
    \/ \E c \in 4..6 : CallNoise(c)
    \/ NoiseEnter
    \/ NoiseLoop
    \/ NoiseFinish
    \/ Deinit
    \/ Return

\* main from its first statement
Spec == Init /\ [][Next]_vars

\* the statements of main and of calculate_noise, and "done"
Statements ==
    {SetupCalls[i][1] : i \in 1..Len(SetupCalls)}
        \cup {t[c] : t \in {OdrLine, AfterOdr, LoopHead, TrigLine, ReadLine,
                             LoopExit}, c \in 1..6}
        \cup {CallLine[c] : c \in 4..6}
        \cup {"L172", "L396", "L398", "L406", "L410", "done"}

\* main has not returned and executes its next statement: control moves, or
\* stays at the head of a loop whose counter changes
Running ==
    /\ pc # "done"
    /\ pc' \in Statements
    /\ loop' \in 0..(UINT8_MOD - 1)
    /\ index' \in 0..(UINT8_MOD - 1)

\* main runs to its end: no statement of it waits on anything, so as long
\* as it has not returned it takes its next step
FairSpec == Spec /\ WF_<<pc, loop, index>>(Running)

NextNoise ==
    \/ HarnessCall
    \/ \E kind \in PermKinds : HarnessPermute(kind)
    \/ NoiseEnter
    \/ NoiseLoop
    \/ NoiseFinish

\* calculate_noise on its own, over the bounded inputs
SpecNoise == InitHarness /\ [][NextNoise]_vars

(***************************************************************************)
(* Reference definitions the properties are stated with.                   *)
(***************************************************************************)
\* a call of calculate_noise has returned and nothing has run since
Returned == n_noise >= 1 /\ pc = ret_pc

\* ((batch[i].a - mean.a) * (batch[i].a - mean.a))
SqDev(batch, mean, a, i) ==
    LET d == FSub(batch[i][a], mean[a]) IN FMul(d, d)

\* acc + t(lo) + ... + t(hi), added one after the other in this order, for
\* t(i) the squared deviation of entry i on axis a (the range is halved
\* rather than walked, which keeps the evaluation shallow)
RECURSIVE SumSqFrom(_, _, _, _, _, _)
SumSqFrom(acc, batch, mean, a, lo, hi) ==
    IF lo = hi THEN FAdd(acc, SqDev(batch, mean, a, lo))
    ELSE LET mid  == (lo + hi) \div 2
             left == SumSqFrom(acc, batch, mean, a, lo, mid)
         IN  IF IsNum(left) \/ ~IsNum(left)
             THEN SumSqFrom(left, batch, mean, a, mid + 1, hi)
             ELSE left

\* the population variance of axis a: the sum of the N squared deviations
\* divided by N
PopVariance(batch, mean, a) ==
    FDivSmall(SumSqFrom(FZero, batch, mean, a, 0, 99), 100)

RmsNoise(batch, mean, a) ==
    FMul(FSqrt(PopVariance(batch, mean, a)), FFromInt(1000))

\* acc + batch[lo].a + ... + batch[hi].a, added in this order
RECURSIVE SumFrom(_, _, _, _, _)
SumFrom(acc, batch, a, lo, hi) ==
    IF lo = hi THEN FAdd(acc, batch[lo][a])
    ELSE LET mid  == (lo + hi) \div 2
             left == SumFrom(acc, batch, a, lo, mid)
         IN  IF IsNum(left) \/ ~IsNum(left)
             THEN SumFrom(left, batch, a, mid + 1, hi)
             ELSE left

\* the integer k with (double)k = v, for the integer-valued y axis
IntOf(v) == CHOOSE k \in 0..MaxVecs : FFromInt(k) = v

RECURSIVE IntSum(_, _)
IntSum(f, S) ==
    IF S = {} THEN 0
    ELSE LET k == CHOOSE k \in S : TRUE IN f[k] + IntSum(f, S \ {k})

\* the sum of the squared deviations of the y axis in integer arithmetic
ExactSumSqY(batch, mean) ==
    LET m == IntOf(mean.y)
        n == [k \in 0..MaxVecs |->
                Cardinality({i \in DOMAIN batch : batch[i].y = FFromInt(k)})
                * (k - m) * (k - m)]
    IN  IntSum(n, 0..MaxVecs)

(***************************************************************************)
(* Properties.                                                             *)
(***************************************************************************)
\* C1: when calculate_noise returns, on each axis a the variance is the sum
\* over the 100 entries of (batch[i].a - mean.a)^2, divided by N = 100 (the
\* population variance, not the sample variance with N - 1), and the value
\* printed is sqrt(variance) * 1000.  On the integer-valued y axis the sum is
\* the one integer arithmetic gives; deviations 1, -1, 1, -1, ... give
\* variance 1 and the output 1000.
C1_PopulationVariance ==
    Returned =>
        LET exact == ExactSumSqY(call_batch, call_avg)
        IN  /\ \A a \in Axes :
                  LET pv == PopVariance(call_batch, call_avg, a)
                  IN  /\ variance[a] = pv
                      /\ noise_level[a] = FMul(FSqrt(pv), FFromInt(1000))
            /\ variance.y = FDivSmall(FFromInt(exact), 100)
            /\ exact = 100 =>
                  /\ variance.y = FFromInt(1)
                  /\ noise_level.y = FFromInt(1000)

\* a call has returned for the batch with y = 1, 3, 1, 3, ... and mean.y = 2:
\* deviations -1, 1, -1, 1, ..., output 1000
C1_Witness ==
    /\ Returned
    /\ call_batch = AltBatch(1, 3)
    /\ call_avg = MeanVec[2]
    /\ ExactSumSqY(call_batch, call_avg) = 100
    /\ noise_level.y = FFromInt(1000)

Reordered ==
    /\ Returned
    /\ n_noise = 2
    /\ \A i \in DOMAIN call_batch :
           call_batch[i] = first.batch[PermIndex(first.perm, i)]

\* C3 as stated: reordering the batch never changes the result on any axis.
C3_PermutationInvariant ==
    Reordered => noise_level = first.noise_level

\* C3 as amended: on an axis where no addition into the accumulator was
\* rounded, in the original order and in the new one, reordering the batch
\* does not change the result.
C3_PermutationInvariantExact ==
    Reordered =>
        \A a \in Axes :
            (~first.inexact[a] /\ ~acc_inexact[a])
                => noise_level[a] = first.noise_level[a]

\* a batch of two different vectors was reordered into a different batch and
\* the y axis, whose additions are all exact, gave the same non-zero result
C3_Witness ==
    /\ Reordered
    /\ call_batch # first.batch
    /\ ~first.inexact.y /\ ~acc_inexact.y
    /\ noise_level.y # FZero
    /\ noise_level.y = first.noise_level.y

\* the scale factors a caller may wish to pass: 1000 and its double
ScaleInputs == {1000, 2000}

\* C4 as stated: the scale is an input, so for each scale a caller passes
\* the result is sqrt(variance) * scale (and doubling the scale doubles it).
C4_ScaleIsInput ==
    Returned =>
        \A sc \in ScaleInputs : \A a \in Axes :
            noise_level[a] = FMul(FSqrt(variance[a]), FFromInt(sc))

\* C4 as amended: calculate_noise has no scale input; every field printed is
\* sqrt(variance) times the literal 1000, so it is proportional to that
\* literal: with 2000 in its place every field would be exactly doubled.
C4_FixedScaleLinear ==
    Returned =>
        \A a \in Axes :
            /\ noise_level[a] = FMul(FSqrt(variance[a]), FFromInt(1000))
            /\ FMul(FSqrt(variance[a]), FFromInt(2000))
                   = FMul(FFromInt(2), noise_level[a])

\* a call has returned with a non-zero noise level on every axis
C4_Witness ==
    /\ Returned
    /\ \A a \in Axes : noise_level[a] # FZero /\ IsNum(noise_level[a])

\* C5: at each of the three calls of calculate_noise in main, the mean
\* vector passed is, per axis, the sum of the 100 entries get_mag_temp_data
\* holds at that moment (added in index order to an accumulator that started
\* at 0) divided by 100, after exactly 100 reads of the combination, whether
\* or not those reads succeeded.
C5_MeanOfSameBatch ==
    pc = "L406" =>
        /\ comb \in 4..6
        /\ reads[comb] = 100
        /\ \A a \in Axes :
               arg_avg_mag_data[a] =
                   FDivSmall(SumFrom(FZero, get_mag_temp_data, a, 0, 99), 100)

\* the third call is entered in a run where some reads failed and others
\* delivered a sample, with a non-zero mean
C5_Witness ==
    /\ pc = "L406"
    /\ n_noise = 3
    /\ \E i \in DOMAIN sensor : sensor[i] = 0
    /\ \E i \in DOMAIN sensor : sensor[i] # 0
    /\ arg_avg_mag_data.y # FZero

\* C6: every call of calculate_noise that main makes divides by
\* N = MAG_SAMPLE_COUNT = 100 > 0 after visiting 100 entries, and neither the
\* variance nor the noise level is a NaN or an infinity.
C6_DivisorPositive ==
    /\ pc = "L406" => Cardinality(DOMAIN call_batch) > 0
    /\ (Returned /\ pc # "harness") =>
           /\ n_div = 100
           /\ n_div > 0
           /\ index = 100
           /\ \A a \in Axes : IsNum(variance[a]) /\ IsNum(noise_level[a])

\* the third call of main has returned
C6_Witness ==
    /\ Returned
    /\ pc = "L396"
    /\ n_noise = 3
    /\ n_div = 100

\* a call of calculate_noise is being made or has just returned
InCall == n_noise >= 1 /\ (pc \in {"L406", "L410"} \/ pc = ret_pc)

\* C7: from the end of the acquisition loop to the end of the call, the
\* batch and the caller's mean vector are what they were; the accumulators
\* are 0 when the loop of a call starts, whatever an earlier call left; and
\* the result of a call is the noise level of that call's batch and mean.
C7_NoSharedState ==
    /\ InCall => /\ get_mag_temp_data = call_batch
                 /\ avg_mag_data = call_avg
                 /\ arg_avg_mag_data = call_avg
    /\ pc \in {"L301", "L347", "L393"} => get_mag_temp_data = call_batch
    /\ (pc = "L410" /\ index = 0) => variance = VecZero
    /\ (Returned /\ pc # "harness") =>
           \A a \in Axes : noise_level[a] = RmsNoise(call_batch, call_avg, a)

\* a later call of main starts its loop after an earlier call left a
\* non-zero variance behind
C7_Witness ==
    /\ pc = "L410"
    /\ index = 0
    /\ n_noise = 2
    /\ n_div = 100
    /\ noise_level # VecZero
    /\ variance = VecZero

\* the reads each combination makes
ReadsOf == <<10, 10, 10, 100, 100, 100>>

\* the counts and indices of the loops so far
LoopsBounded ==
    /\ ~oob
    /\ \A c \in 1..6 :
           /\ reads[c] <= ReadsOf[c]
           /\ comb > c => reads[c] = ReadsOf[c]
    /\ (pc \in {"L398", "done"} /\ axes_rslt = {BMM350_OK}) =>
           reads = ReadsOf
    /\ pc = "L197" => loop = 0
    /\ pc \in {"L227", "L261"} => loop = 255
    /\ pc \in {"L203", "L233"} => loop = 10
    /\ pc \in {"L274", "L320", "L366"} => loop \in 0..99
    /\ (pc = "L410" /\ index < 100) => index \in 0..99

\* C8: combinations 1, 2 and 3 make exactly 10 reads each (the counter is
\* 255 after each `while (loop--)` loop and 10 again before the next),
\* combinations 4, 5 and 6 make exactly 100 reads each, every index into
\* get_mag_temp_data is in 0..99, and main always reaches
\* bmm350_coines_deinit.
C8_LoopsTerminate == [](LoopsBounded) /\ <>(n_deinit = 1)

\* combination 3 has made its 10 reads and left the counter at 255
C8_Witness ==
    /\ pc = "L261"
    /\ loop = 255
    /\ reads[1] = 10 /\ reads[2] = 10 /\ reads[3] = 10

\* C9: a read of combination c comes after that combination's
\* bmm350_set_odr_performance, which comes after the last read of the
\* combination before; no read comes before bmm350_enable_axes and a
\* bmm350_set_powermode; in combinations 2 to 6 the call before each read is
\* that read's own bmm350_set_powermode; combination 1 makes one
\* bmm350_set_powermode and then its reads; bmm350_coines_deinit is called
\* once, after every other driver call, on every path.
C9_CallOrder ==
    LET read == "bmm350_get_compensated_mag_xyz_temp_data"
        trig == "bmm350_set_powermode"
    IN  /\ \A c \in 1..6 :
               /\ reads[c] > 0 => odr_comb >= c
               /\ (odr_comb >= c /\ c > 1) => reads[c - 1] = ReadsOf[c - 1]
               /\ odr_comb < c => (reads[c] = 0 /\ triggers[c] = 0)
        /\ read \in called =>
               {"bmm350_enable_axes", trig} \subseteq called
        /\ last_call = read =>
               /\ odr_comb \in 1..6
               /\ reads[odr_comb] > 0
               /\ odr_comb >= 2 =>
                      /\ prev_call = trig
                      /\ triggers[odr_comb] = reads[odr_comb]
               /\ odr_comb = 1 =>
                      prev_call = (IF reads[1] = 1 THEN trig ELSE read)
        /\ \A c \in 2..6 :
               triggers[c] = reads[c] + (IF pc = ReadLine[c] THEN 1 ELSE 0)
        /\ triggers[1] <= 1
        /\ reads[1] > 0 => triggers[1] = 1
        /\ n_deinit <= 1
        /\ n_deinit = 1 => (last_call = "bmm350_coines_deinit"
                               /\ pc \in {"L398", "done"})
        /\ pc = "done" => n_deinit = 1

\* main has returned after all six combinations: 1 trigger and 10 reads in
\* the first, as many triggers as reads in the others
C9_Witness ==
    /\ pc = "done"
    /\ n_deinit = 1
    /\ triggers = <<1, 10, 10, 100, 100, 100>>
    /\ reads = ReadsOf

\* the status of the last read made, from what the sensor delivered
LastReadStatus ==
    LET n == reads[1] + reads[2] + reads[3] + reads[4] + reads[5] + reads[6]
    IN  IF sensor[(n - 1) % Cardinality(DOMAIN sensor)] = 0
        THEN E_COM_FAIL ELSE BMM350_OK

\* C10: when bmm350_enable_axes fails, no power mode is set, nothing is
\* read, calculate_noise is not called and main returns that failure after
\* bmm350_coines_deinit; when it succeeds, all six combinations and the
\* three calls of calculate_noise run whatever the other driver calls
\* returned, and main returns the status of the 100th read of combination 6,
\* which can be BMM350_OK although earlier calls failed.
C10_ErrorHandling ==
    /\ (axes_rslt # {} /\ axes_rslt # {BMM350_OK}) =>
           /\ "bmm350_set_powermode" \notin called
           /\ "bmm350_get_compensated_mag_xyz_temp_data" \notin called
           /\ n_noise = 0
           /\ pc \in {"L172", "L396", "L398", "done"}
           /\ pc = "done" => (ret = axes_rslt /\ n_deinit = 1)
    /\ (pc = "done" /\ axes_rslt = {BMM350_OK}) =>
           /\ n_noise = 3
           /\ reads = ReadsOf
           /\ last_call = "bmm350_coines_deinit"
           /\ prev_call = "bmm350_get_compensated_mag_xyz_temp_data"
           /\ ret = {LastReadStatus}
    /\ pc = "done" => \E r \in Rslt : ret = {r}

\* main has returned BMM350_OK after a run in which driver calls failed
C10_Witness ==
    /\ pc = "done"
    /\ ret = {BMM350_OK}
    /\ failed
    /\ n_noise = 3

\* main has returned the failure of bmm350_enable_axes
C10_WitnessFailure ==
    /\ pc = "done"
    /\ axes_rslt # {BMM350_OK}
    /\ ret = axes_rslt

====
